---- MODULE Spec2Model ----
(***************************************************************************)
(* Provider-agnostic chat completion (libs/shared-go/infra/ai): the        *)
(* factory NewChatProvider, the two adapters (openAIAdapter, localAdapter)  *)
(* and the two clients (openai/chats.Client, local/chats.Client) with      *)
(* their blocking Completion call and their CompletionStream read loop.    *)
(*                                                                         *)
(* Texts are modelled as sequences of string tokens, so that trimming,     *)
(* prefix tests and "contains" are computed; JSON decoding is a table from *)
(* the wire text to the decoded Go value (zero values for absent fields).  *)
(* Go errors are sequences of the text parts fmt.Errorf joins; <<>> is nil. *)
(***************************************************************************)
EXTENDS Integers, Sequences, FiniteSets, TLC

VARIABLES cfg, built, provider, factoryErr, call, peer, config

vars == <<cfg, built, provider, factoryErr, call, peer, config>>

\* Longest response body (in lines) the transport delivers to a streaming call.
MaxLines == 3

NoErr == <<>>

\* strings.Contains on an error text: one of its parts is s.
Contains(err, s) == \E i \in DOMAIN err : err[i] = s

(***************************************************************************)
(* model.go: provider tags.                                                *)
(***************************************************************************)
ProviderOpenAI == "openai"
ProviderLocal == "local"

(***************************************************************************)
(* openai/chats and local/chats: constants and Config.IsValid.             *)
(***************************************************************************)
OpenAIDefaultModel == "gpt-4o-mini"
LocalDefaultModel == "llama3:8b"
LocalDefaultHost == <<"http://localhost:11434">>

OpenAIConfigIsValid(c) == c.APIKey # ""

LocalConfigIsValid(c) == c.Host # <<>> /\ c.Model # ""

\* strings.TrimRight(s, "/") on a host given as tokens.
RECURSIVE TrimRightSlash(_)
TrimRightSlash(s) ==
    IF s # <<>> /\ s[Len(s)] = "/" THEN TrimRightSlash(SubSeq(s, 1, Len(s) - 1))
    ELSE s

\* A nil *Client.
NilClient == [kind |-> "nil", apiKey |-> "", host |-> <<>>, model |-> "", enabled |-> FALSE]

\* Mutant of OpenAINewClient: the client literal leaves enabled at its zero value.
OpenAINewClient_NotEnabled(c) ==
    IF ~OpenAIConfigIsValid(c)
    THEN [client |-> NilClient,
          err |-> <<"invalid OpenAI configuration: API key is required">>]
    ELSE [client |-> [kind |-> "openai", apiKey |-> c.APIKey, host |-> <<>>,
                      model |-> IF c.Model = "" THEN OpenAIDefaultModel ELSE c.Model,
                      enabled |-> FALSE],
          err |-> NoErr]

\* openai/chats.NewClient: (client, err).
OpenAINewClient(c) ==
    IF ~OpenAIConfigIsValid(c)
    THEN [client |-> NilClient,
          err |-> <<"invalid OpenAI configuration: API key is required">>]
    ELSE [client |-> [kind |-> "openai", apiKey |-> c.APIKey, host |-> <<>>,
                      model |-> IF c.Model = "" THEN OpenAIDefaultModel ELSE c.Model,
                      enabled |-> TRUE],
          err |-> NoErr]

\* local/chats.NewClient: (client, err). It never calls Config.IsValid.
LocalNewClient(c) ==
    LET host == TrimRightSlash(c.Host) IN
    [client |-> [kind |-> "local", apiKey |-> "",
                 host |-> IF host = <<>> THEN LocalDefaultHost ELSE host,
                 model |-> IF c.Model = "" THEN LocalDefaultModel ELSE c.Model,
                 enabled |-> TRUE],
     err |-> NoErr]

(***************************************************************************)
(* factory.go: the adapters' constructors and NewChatProvider.             *)
(* A ChatProvider interface value is (itype, client): its dynamic type and *)
(* the adapter pointer it holds (the adapter is its client, NilClient for  *)
(* a nil pointer). The nil interface has itype "nil".                      *)
(***************************************************************************)
NilProvider == [itype |-> "nil", client |-> NilClient]

IsNilInterface(p) == p.itype = "nil"

\* (*openAIAdapter, error)
newOpenAIAdapter(c) ==
    LET r == OpenAINewClient([APIKey |-> c.OpenAIAPIKey, Model |-> c.OpenAIModel]) IN
    IF r.err # NoErr
    THEN [adapter |-> NilClient,
          err |-> <<"failed to create OpenAI chat client: ">> \o r.err]
    ELSE [adapter |-> r.client, err |-> NoErr]

\* (*localAdapter, error)
newLocalAdapter(c) ==
    LET r == LocalNewClient([Host |-> c.LocalHost, Model |-> c.LocalModel]) IN
    IF r.err # NoErr
    THEN [adapter |-> NilClient,
          err |-> <<"failed to create local LLM chat client: ">> \o r.err]
    ELSE [adapter |-> r.client, err |-> NoErr]

\* Mutant of NewChatProviderResult: an unrecognised tag falls back to the local
\* adapter instead of failing.
NewChatProviderResult_DefaultLocal(c) ==
    IF c.isNil
    THEN [provider |-> NilProvider, err |-> <<"chat provider config is required">>]
    ELSE IF c.Provider = ProviderOpenAI
    THEN LET r == newOpenAIAdapter(c) IN
         [provider |-> [itype |-> "*openAIAdapter", client |-> r.adapter], err |-> r.err]
    ELSE LET r == newLocalAdapter(c) IN
         [provider |-> [itype |-> "*localAdapter", client |-> r.adapter], err |-> r.err]

\* `return newOpenAIAdapter(cfg, logger)` converts the *openAIAdapter result to
\* the ChatProvider interface: the interface value carries the pointer's type
\* whether or not the pointer is nil.
NewChatProviderResult(c) ==
    IF c.isNil
    THEN [provider |-> NilProvider, err |-> <<"chat provider config is required">>]
    ELSE IF c.Provider = ProviderOpenAI
    THEN LET r == newOpenAIAdapter(c) IN
         [provider |-> [itype |-> "*openAIAdapter", client |-> r.adapter], err |-> r.err]
    ELSE IF c.Provider = ProviderLocal
    THEN LET r == newLocalAdapter(c) IN
         [provider |-> [itype |-> "*localAdapter", client |-> r.adapter], err |-> r.err]
    ELSE [provider |-> NilProvider,
          err |-> <<"unsupported chat provider: ", c.Provider, " (supported: ",
                    ProviderOpenAI, ", ", ProviderLocal, ")">>]

\* The configurations a caller passes: nil, both variants with their settings
\* present or absent, and unrecognised tags.
NilConfig ==
    [isNil |-> TRUE, Provider |-> "", OpenAIAPIKey |-> "", OpenAIModel |-> "",
     LocalHost |-> <<>>, LocalModel |-> ""]

Hosts == {<<>>, <<"http://ollama:11434">>, <<"http://ollama:11434", "/">>}

Configs ==
    {NilConfig}
    \cup {[isNil |-> FALSE, Provider |-> ProviderOpenAI, OpenAIAPIKey |-> k,
           OpenAIModel |-> m, LocalHost |-> <<>>, LocalModel |-> ""] :
          k \in {"", "sk-test"}, m \in {"", "gpt-4o"}}
    \cup {[isNil |-> FALSE, Provider |-> ProviderLocal, OpenAIAPIKey |-> "",
           OpenAIModel |-> "", LocalHost |-> h, LocalModel |-> m] :
          h \in Hosts, m \in {"", "mistral"}}
    \cup {[isNil |-> FALSE, Provider |-> t, OpenAIAPIKey |-> "sk-test",
           OpenAIModel |-> "", LocalHost |-> <<"http://ollama:11434">>, LocalModel |-> ""] :
          t \in {"", "azure"}}

(***************************************************************************)
(* Wire texts. A line of a response body is a sequence of tokens: " " is   *)
(* white space, "data: " the SSE prefix, any other token a payload text.   *)
(***************************************************************************)
Sentinel == "[DONE]"
DataPrefix == "data: "

\* Cloud stream payloads (openai/chats/model.go StreamChunk).
HiChunk == "{\"choices\":[{\"delta\":{\"content\":\"Hi\"}}]}"
StopChunk == "{\"choices\":[{\"delta\":{},\"finish_reason\":\"stop\"}]}"
LengthChunk == "{\"choices\":[{\"delta\":{\"content\":\"Hi\"},\"finish_reason\":\"length\"}]}"
NoChoiceChunk == "{\"choices\":[]}"
BadChunk == "{\"choices\":[{\"delta\""

\* Local stream payloads (model.go StreamChunk of local/chats).
HiLine == "{\"message\":{\"content\":\"Hi\"},\"done\":false}"
DoneLine == "{\"done\":true,\"eval_count\":5}"
NoDoneLine == "{\"message\":{\"content\":\"Hi\"}}"
BadLine == "{\"message\":{\"content\""

\* Non-streaming response bodies.
CloudRespJSON == "{\"model\":\"gpt-4o\",\"choices\":[{\"message\":{\"content\":\"Hello\"}}],\"usage\":{\"prompt_tokens\":10,\"completion_tokens\":20,\"total_tokens\":30}}"
LocalRespJSON == "{\"model\":\"mistral\",\"message\":{\"content\":\"Hello\"},\"done\":true,\"prompt_eval_count\":10,\"eval_count\":20}"
BadRespJSON == "{\"model\":"
CloudRespNoUsageJSON == "{\"model\":\"gpt-4o\",\"choices\":[]}"
CloudRespNegativeJSON == "{\"model\":\"gpt-4o\",\"choices\":[{\"message\":{\"content\":\"Hello\"}}],\"usage\":{\"prompt_tokens\":-1,\"completion_tokens\":20,\"total_tokens\":19}}"
LocalRespNoCountsJSON == "{\"model\":\"mistral\",\"message\":{\"content\":\"Hello\"},\"done\":true}"
LocalRespPromptOnlyJSON == "{\"model\":\"mistral\",\"message\":{\"content\":\"Hello\"},\"done\":true,\"prompt_eval_count\":7}"
LocalRespNegativeJSON == "{\"model\":\"mistral\",\"message\":{\"content\":\"Hello\"},\"done\":true,\"prompt_eval_count\":-5,\"eval_count\":2}"

\* Error bodies of a non-2xx response.
BadRequestJSON == "{\"error\":{\"message\":\"bad request\",\"type\":\"invalid_request_error\"}}"
EmptyMessageJSON == "{\"error\":{\"message\":\"\",\"type\":\"server_error\"}}"
PlainTextBody == "Bad Gateway"

JSONSyntaxError == "unexpected end of JSON input"

CloudLines ==
    {<<" ">>, <<": keep-alive">>, <<DataPrefix, Sentinel>>, <<DataPrefix, HiChunk>>,
     <<DataPrefix, StopChunk>>, <<DataPrefix, LengthChunk>>, <<DataPrefix, NoChoiceChunk>>,
     <<DataPrefix, BadChunk>>}

LocalLines == {<<" ">>, <<HiLine>>, <<DoneLine, " ">>, <<NoDoneLine>>, <<BadLine>>}

\* strings.TrimSpace on a line.
RECURSIVE TrimSpace(_)
TrimSpace(line) ==
    IF line # <<>> /\ line[1] = " " THEN TrimSpace(Tail(line))
    ELSE IF line # <<>> /\ line[Len(line)] = " "
    THEN TrimSpace(SubSeq(line, 1, Len(line) - 1))
    ELSE line

\* strings.HasPrefix(line, "data: ") and strings.TrimPrefix(line, "data: ").
HasDataPrefix(line) == line # <<>> /\ line[1] = DataPrefix

TrimDataPrefix(line) == IF HasDataPrefix(line) THEN Tail(line) ELSE line

\* json.Unmarshal into openai/chats.StreamChunk: the choices, each with its
\* delta content and finish reason ("" when absent).
CloudUnmarshalChunk(data) ==
    IF data = <<HiChunk>>
    THEN [ok |-> TRUE, Choices |-> <<[Content |-> "Hi", FinishReason |-> ""]>>]
    ELSE IF data = <<StopChunk>>
    THEN [ok |-> TRUE, Choices |-> <<[Content |-> "", FinishReason |-> "stop"]>>]
    ELSE IF data = <<LengthChunk>>
    THEN [ok |-> TRUE, Choices |-> <<[Content |-> "Hi", FinishReason |-> "length"]>>]
    ELSE IF data = <<NoChoiceChunk>>
    THEN [ok |-> TRUE, Choices |-> <<>>]
    ELSE [ok |-> FALSE, Choices |-> <<>>]

\* json.Unmarshal into local/chats.StreamChunk: absent fields keep Go's zero
\* value, so a line without "done" decodes with Done = false.
LocalUnmarshalChunk(line) ==
    IF line = <<HiLine>>
    THEN [ok |-> TRUE, Content |-> "Hi", Done |-> FALSE, PromptEvalCount |-> 0, EvalCount |-> 0]
    ELSE IF line = <<DoneLine>>
    THEN [ok |-> TRUE, Content |-> "", Done |-> TRUE, PromptEvalCount |-> 0, EvalCount |-> 5]
    ELSE IF line = <<NoDoneLine>>
    THEN [ok |-> TRUE, Content |-> "Hi", Done |-> FALSE, PromptEvalCount |-> 0, EvalCount |-> 0]
    ELSE [ok |-> FALSE, Content |-> "", Done |-> FALSE, PromptEvalCount |-> 0, EvalCount |-> 0]

\* json.Unmarshal into openai/chats.APIError.
UnmarshalAPIError(raw) ==
    IF raw = BadRequestJSON
    THEN [ok |-> TRUE, Message |-> "bad request", Type |-> "invalid_request_error"]
    ELSE IF raw = EmptyMessageJSON
    THEN [ok |-> TRUE, Message |-> "", Type |-> "server_error"]
    ELSE [ok |-> FALSE, Message |-> "", Type |-> ""]

NoUsage == [PromptTokens |-> 0, CompletionTokens |-> 0, TotalTokens |-> 0]

\* json.Unmarshal into openai/chats.CompletionResponse.
CloudUnmarshalResponse(raw) ==
    IF raw = CloudRespJSON
    THEN [ok |-> TRUE, Model |-> "gpt-4o", Choices |-> <<[Content |-> "Hello"]>>,
          Usage |-> [PromptTokens |-> 10, CompletionTokens |-> 20, TotalTokens |-> 30]]
    ELSE IF raw = CloudRespNoUsageJSON
    THEN [ok |-> TRUE, Model |-> "gpt-4o", Choices |-> <<>>, Usage |-> NoUsage]
    ELSE IF raw = CloudRespNegativeJSON
    THEN [ok |-> TRUE, Model |-> "gpt-4o", Choices |-> <<[Content |-> "Hello"]>>,
          Usage |-> [PromptTokens |-> -1, CompletionTokens |-> 20, TotalTokens |-> 19]]
    ELSE [ok |-> FALSE, Model |-> "", Choices |-> <<>>, Usage |-> NoUsage]

\* json.Unmarshal into local/chats.CompletionResponse.
LocalUnmarshalResponse(raw) ==
    IF raw = LocalRespJSON
    THEN [ok |-> TRUE, Model |-> "mistral", Content |-> "Hello",
          PromptEvalCount |-> 10, EvalCount |-> 20]
    ELSE IF raw = LocalRespNoCountsJSON
    THEN [ok |-> TRUE, Model |-> "mistral", Content |-> "Hello",
          PromptEvalCount |-> 0, EvalCount |-> 0]
    ELSE IF raw = LocalRespPromptOnlyJSON
    THEN [ok |-> TRUE, Model |-> "mistral", Content |-> "Hello",
          PromptEvalCount |-> 7, EvalCount |-> 0]
    ELSE IF raw = LocalRespNegativeJSON
    THEN [ok |-> TRUE, Model |-> "mistral", Content |-> "Hello",
          PromptEvalCount |-> -5, EvalCount |-> 2]
    ELSE [ok |-> FALSE, Model |-> "", Content |-> "", PromptEvalCount |-> 0, EvalCount |-> 0]

\* The response bodies the upstream answers a non-streaming request with.
CloudResponses == {CloudRespJSON, CloudRespNoUsageJSON, CloudRespNegativeJSON, BadRespJSON}

LocalResponses ==
    {LocalRespJSON, LocalRespNoCountsJSON, LocalRespPromptOnlyJSON, LocalRespNegativeJSON,
     BadRespJSON}

\* HTTP statuses the upstream answers with, and strconv of each (%d).
Statuses == {199, 200, 299, 300, 404, 500}

Itoa(n) ==
    CASE n = 199 -> "199" [] n = 200 -> "200" [] n = 299 -> "299"
      [] n = 300 -> "300" [] n = 404 -> "404" [] n = 500 -> "500" [] OTHER -> "?"

(***************************************************************************)
(* The transport: what the upstream does with the one request of a call.   *)
(* net = "fail" is a connection failure; otherwise status and, for a       *)
(* non-2xx status, the raw error body; for a 2xx status the body: raw (a   *)
(* non-streaming response) or the lines of a stream, and whether reading   *)
(* the body ends with a read error instead of a clean end of input.        *)
(***************************************************************************)
OKStatuses == {s \in Statuses : s >= 200 /\ s < 300}

ErrorBodies == {BadRequestJSON, EmptyMessageJSON, PlainTextBody, ""}

Bodies(lines) == UNION {[1..n -> lines] : n \in 0..MaxLines}

FailedTransport ==
    [net |-> "fail", status |-> 0, raw |-> "", body |-> <<>>, readErr |-> FALSE, errAhead |-> FALSE]

ErrorTransports ==
    {[net |-> "ok", status |-> s, raw |-> r, body |-> <<>>, readErr |-> FALSE, errAhead |-> FALSE] :
        s \in Statuses \ OKStatuses, r \in ErrorBodies}

\* How reading a streamed body fails, as <<readErr, errAhead>>: not at all; or
\* with an error the scanner meets only when it asks for data after the last
\* line; or with an error returned by the very Read that delivered the lines,
\* which the scanner records while those lines are still buffered.
ReadErrors == {<<FALSE, FALSE>>, <<TRUE, FALSE>>, <<TRUE, TRUE>>}

ResponseTransports(raws) ==
    {[net |-> "ok", status |-> s, raw |-> r, body |-> <<>>, readErr |-> e,
      errAhead |-> FALSE] :
        s \in OKStatuses, r \in raws, e \in BOOLEAN}

StreamTransports(lines) ==
    {[net |-> "ok", status |-> s, raw |-> "", body |-> b, readErr |-> e[1],
      errAhead |-> e[2]] :
        s \in OKStatuses, b \in Bodies(lines), e \in ReadErrors}

\* Mutant of OpenAIDoRequest: only statuses from 400 up count as failures.
OpenAIDoRequest_ClientErrorsOnly(t) ==
    IF t.net = "fail"
    THEN [opened |-> FALSE, closed |-> FALSE,
          err |-> <<"failed to send HTTP request: ", "connection refused">>]
    ELSE IF t.status >= 400
    THEN LET apiErr == UnmarshalAPIError(t.raw) IN
         IF apiErr.ok /\ apiErr.Message # ""
         THEN [opened |-> FALSE, closed |-> TRUE,
               err |-> <<"OpenAI API error (status ", Itoa(t.status), "): ", apiErr.Message>>]
         ELSE [opened |-> FALSE, closed |-> TRUE,
               err |-> <<"OpenAI API error (status ", Itoa(t.status), "): ", t.raw>>]
    ELSE [opened |-> TRUE, closed |-> FALSE, err |-> NoErr]

\* openai/chats.Client.doRequest: (body opened, err).
OpenAIDoRequest(t) ==
    IF t.net = "fail"
    THEN [opened |-> FALSE, closed |-> FALSE,
          err |-> <<"failed to send HTTP request: ", "connection refused">>]
    ELSE IF t.status < 200 \/ t.status >= 300
    THEN LET apiErr == UnmarshalAPIError(t.raw) IN
         IF apiErr.ok /\ apiErr.Message # ""
         THEN [opened |-> FALSE, closed |-> TRUE,
               err |-> <<"OpenAI API error (status ", Itoa(t.status), "): ", apiErr.Message>>]
         ELSE [opened |-> FALSE, closed |-> TRUE,
               err |-> <<"OpenAI API error (status ", Itoa(t.status), "): ", t.raw>>]
    ELSE [opened |-> TRUE, closed |-> FALSE, err |-> NoErr]

\* local/chats.Client.doRequest: (body opened, err).
LocalDoRequest(t) ==
    IF t.net = "fail"
    THEN [opened |-> FALSE, closed |-> FALSE,
          err |-> <<"failed to send HTTP request: ", "connection refused">>]
    ELSE IF t.status < 200 \/ t.status >= 300
    THEN [opened |-> FALSE, closed |-> TRUE,
          err |-> <<"LLM API error (status ", Itoa(t.status), "): ", t.raw>>]
    ELSE [opened |-> TRUE, closed |-> FALSE, err |-> NoErr]

(***************************************************************************)
(* The state of the caller's current (or last) call on the adapter.        *)
(*   op, pc     the operation and where it is: "reading" inside the read   *)
(*              loop of CompletionStream, "returned", or "panicked"        *)
(*   messages, onDeltaNil, stopAt   the arguments: onDelta is nil, or      *)
(*              returns a stop signal on invocation stopAt (0: never)      *)
(*   requests   HTTP requests issued by the call                           *)
(*   status, raw, body, readErr, errAhead     the response received        *)
(*   opened, closed   response bodies handed over by httpClient.Do, and    *)
(*              calls of Close on them                                     *)
(*   pos        lines of the body consumed by scanner.Scan                 *)
(*   deltas     the ChatStreamDelta values delivered to onDelta, in order  *)
(*   err, resp  the values returned                                        *)
(*   request    the HTTP request the call built and sent                   *)
(*   enabled, model   the values IsEnabled() and GetModel() returned       *)
(* peer is the call of a second, concurrent caller on the same adapter.    *)
(***************************************************************************)
\* The messages a caller passes (ai.Message), by roles and contents.
Roles == {"system", "user", "assistant"}

NoRequest ==
    [sent |-> FALSE, Method |-> "", URL |-> <<>>, Authorization |-> "", Model |-> "",
     Messages |-> <<>>, Stream |-> FALSE]

OpenAIChatURL == <<"https://api.openai.com/v1/chat/completions">>
OpenAIModelsURL == <<"https://api.openai.com/v1/models">>
LocalChatEndpoint == <<"/api/chat">>

NilResponse == [isNil |-> TRUE, Model |-> "", Content |-> "", Usage |-> NoUsage]

StopSignal == <<"stopped by caller">>

NewCall(op, msgs) ==
    [op |-> op, pc |-> "returned", messages |-> msgs, onDeltaNil |-> FALSE, stopAt |-> 0,
     requests |-> 0, status |-> 0, raw |-> "", body |-> <<>>, readErr |-> FALSE,
     errAhead |-> FALSE, opened |-> 0, closed |-> 0, pos |-> 0, deltas |-> <<>>, err |-> NoErr, resp |-> NilResponse,
     request |-> NoRequest, enabled |-> FALSE, model |-> ""]

IdleCall == [NewCall("none", <<>>) EXCEPT !.pc = "idle"]

\* Mutant of toOpenAIMessages: the copy loop starts at the second message and
\* leaves the first slot at its zero value.
toOpenAIMessages_SkipFirst(msgs) ==
    [i \in 1..Len(msgs) |->
        IF i = 1 THEN [Role |-> "", Content |-> ""]
        ELSE [Role |-> msgs[i].Role, Content |-> msgs[i].Content]]

\* factory.go toOpenAIMessages / toLocalMessages: out[i] = Message{Role, Content}.
toOpenAIMessages(msgs) ==
    [i \in 1..Len(msgs) |-> [Role |-> msgs[i].Role, Content |-> msgs[i].Content]]

toLocalMessages(msgs) ==
    [i \in 1..Len(msgs) |-> [Role |-> msgs[i].Role, Content |-> msgs[i].Content]]

ToClientMessages(client, msgs) ==
    IF client.kind = "openai" THEN toOpenAIMessages(msgs) ELSE toLocalMessages(msgs)

\* Mutant of OpenAIBuildRequest: the request names the default model, not c.model.
OpenAIBuildRequest_DefaultModel(client, messages, stream) ==
    [sent |-> TRUE, Method |-> "POST", URL |-> OpenAIChatURL,
     Authorization |-> client.apiKey, Model |-> OpenAIDefaultModel,
     Messages |-> messages, Stream |-> stream]

\* openai/chats.Client.buildRequest, with what doRequest adds (URL, headers).
OpenAIBuildRequest(client, messages, stream) ==
    [sent |-> TRUE, Method |-> "POST", URL |-> OpenAIChatURL,
     Authorization |-> client.apiKey, Model |-> client.model,
     Messages |-> messages, Stream |-> stream]

\* The CompletionRequest literal of local/chats.Client, with what doRequest adds.
LocalBuildRequest(client, messages, stream) ==
    [sent |-> TRUE, Method |-> "POST", URL |-> client.host \o LocalChatEndpoint,
     Authorization |-> "", Model |-> client.model,
     Messages |-> messages, Stream |-> stream]

BuildRequest(client, messages, stream) ==
    IF client.kind = "openai" THEN OpenAIBuildRequest(client, messages, stream)
    ELSE LocalBuildRequest(client, messages, stream)

\* Mutant of Sent: a request that failed in transport is sent once more.
Sent_RetryOnFailure(c, t) ==
    IF t.net = "fail" THEN [c EXCEPT !.requests = c.requests + 2]
    ELSE [c EXCEPT !.requests = c.requests + 1, !.status = t.status, !.raw = t.raw,
                   !.opened = c.opened + 1]

\* The request of a call has been sent and answered as t.
Sent(c, t) ==
    IF t.net = "fail" THEN [c EXCEPT !.requests = c.requests + 1]
    ELSE [c EXCEPT !.requests = c.requests + 1, !.status = t.status, !.raw = t.raw,
                   !.opened = c.opened + 1]

\* resp.Body.Close() / body.Close().
CloseBody(c) == [c EXCEPT !.closed = c.closed + 1]

\* The call after doRequest returned d with an error: on a non-2xx status
\* doRequest has closed the body it read the error from (its defer).
DoRequestFailed(c, t, d) ==
    [(IF d.closed THEN CloseBody(Sent(c, t)) ELSE Sent(c, t)) EXCEPT !.err = d.err]

NotEnabledError(client) ==
    IF client.kind = "openai" THEN <<"OpenAI chat client is not enabled">>
    ELSE <<"local LLM client is not enabled">>

DoRequest(client, t) ==
    IF client.kind = "openai" THEN OpenAIDoRequest(t) ELSE LocalDoRequest(t)

\* Client.Completion of both clients up to the decoded response: the call
\* with err set, or with pc = "decode" when the body is to be unmarshalled.
\* The deferred body.Close() runs on each return after doRequest succeeded.
ClientCompletion(client, msgs, t) ==
    LET c == NewCall("Completion", msgs) IN
    IF ~client.enabled THEN [c EXCEPT !.err = NotEnabledError(client)]
    ELSE IF Len(msgs) = 0 THEN [c EXCEPT !.err = <<"at least one message is required">>]
    ELSE LET d == DoRequest(client, t)
             q == [c EXCEPT !.request = BuildRequest(client, msgs, FALSE)]
         IN
         IF d.err # NoErr THEN DoRequestFailed(q, t, d)
         ELSE IF t.readErr
         THEN [CloseBody(Sent(q, t)) EXCEPT
                  !.err = <<"failed to read response body: ", "unexpected EOF">>]
         ELSE [CloseBody(Sent(q, t)) EXCEPT !.pc = "decode"]

UnmarshalResponseError == <<"failed to unmarshal completion response: ", JSONSyntaxError>>

\* openAIAdapter.Completion over openai/chats.Client.Completion.
openAIAdapterCompletion(client, msgs, t) ==
    LET c == [ClientCompletion(client, toOpenAIMessages(msgs), t) EXCEPT !.messages = msgs] IN
    IF c.pc # "decode" THEN c
    ELSE LET resp == CloudUnmarshalResponse(t.raw) IN
         IF ~resp.ok THEN [c EXCEPT !.pc = "returned", !.err = UnmarshalResponseError]
         ELSE [c EXCEPT !.pc = "returned",
                        !.resp = [isNil |-> FALSE, Model |-> resp.Model,
                                  Content |-> IF Len(resp.Choices) > 0
                                              THEN resp.Choices[1].Content ELSE "",
                                  Usage |-> resp.Usage]]

\* Mutant of localAdapterCompletion: the total is the completion count alone.
localAdapterCompletion_TotalIsEval(client, msgs, t) ==
    LET c == [ClientCompletion(client, toLocalMessages(msgs), t) EXCEPT !.messages = msgs] IN
    IF c.pc # "decode" THEN c
    ELSE LET resp == LocalUnmarshalResponse(t.raw) IN
         IF ~resp.ok THEN [c EXCEPT !.pc = "returned", !.err = UnmarshalResponseError]
         ELSE [c EXCEPT !.pc = "returned",
                        !.resp = [isNil |-> FALSE, Model |-> resp.Model,
                                  Content |-> resp.Content,
                                  Usage |-> [PromptTokens |-> resp.PromptEvalCount,
                                             CompletionTokens |-> resp.EvalCount,
                                             TotalTokens |-> resp.EvalCount]]]

\* localAdapter.Completion over local/chats.Client.Completion.
localAdapterCompletion(client, msgs, t) ==
    LET c == [ClientCompletion(client, toLocalMessages(msgs), t) EXCEPT !.messages = msgs] IN
    IF c.pc # "decode" THEN c
    ELSE LET resp == LocalUnmarshalResponse(t.raw) IN
         IF ~resp.ok THEN [c EXCEPT !.pc = "returned", !.err = UnmarshalResponseError]
         ELSE [c EXCEPT !.pc = "returned",
                        !.resp = [isNil |-> FALSE, Model |-> resp.Model,
                                  Content |-> resp.Content,
                                  Usage |-> [PromptTokens |-> resp.PromptEvalCount,
                                             CompletionTokens |-> resp.EvalCount,
                                             TotalTokens |-> resp.PromptEvalCount
                                                             + resp.EvalCount]]]

\* Mutant of ClientStreamStart: the check of len(messages) is missing.
ClientStreamStart_NoMessageCheck(client, msgs, onChunkNil, t) ==
    LET c == NewCall("CompletionStream", msgs) IN
    IF ~client.enabled THEN [c EXCEPT !.err = NotEnabledError(client)]
    ELSE IF onChunkNil THEN [c EXCEPT !.err = <<"onChunk callback is required">>]
    ELSE LET d == DoRequest(client, t)
             q == [c EXCEPT !.request = BuildRequest(client, msgs, TRUE)]
         IN
         IF d.err # NoErr THEN DoRequestFailed(q, t, d)
         ELSE [Sent(q, t) EXCEPT !.pc = "reading", !.body = t.body, !.readErr = t.readErr,
                                 !.errAhead = t.errAhead]

\* Client.CompletionStream of both clients up to the read loop: the three
\* checks, then doRequest. onChunkNil: the callback the CLIENT was given is nil.
ClientStreamStart(client, msgs, onChunkNil, t) ==
    LET c == NewCall("CompletionStream", msgs) IN
    IF ~client.enabled THEN [c EXCEPT !.err = NotEnabledError(client)]
    ELSE IF Len(msgs) = 0 THEN [c EXCEPT !.err = <<"at least one message is required">>]
    ELSE IF onChunkNil THEN [c EXCEPT !.err = <<"onChunk callback is required">>]
    ELSE LET d == DoRequest(client, t)
             q == [c EXCEPT !.request = BuildRequest(client, msgs, TRUE)]
         IN
         IF d.err # NoErr THEN DoRequestFailed(q, t, d)
         ELSE [Sent(q, t) EXCEPT !.pc = "reading", !.body = t.body, !.readErr = t.readErr,
                                 !.errAhead = t.errAhead]

\* Whether the onChunk the adapter hands to its client is nil: both adapters
\* always pass a closure (a func literal around onDelta), whatever onDelta is.
AdapterOnChunkNil(onDeltaNil) == FALSE

\* openAIAdapter.CompletionStream / localAdapter.CompletionStream, up to the
\* read loop.
AdapterStreamStart(client, msgs, onDeltaNil, stopAt, t) ==
    [ClientStreamStart(client, ToClientMessages(client, msgs), AdapterOnChunkNil(onDeltaNil), t)
        EXCEPT !.messages = msgs, !.onDeltaNil = onDeltaNil, !.stopAt = stopAt]

\* Mutant of OpenAIDelta: any finish reason marks the delta as done.
OpenAIDelta_AnyFinishIsDone(chunk) ==
    IF Len(chunk.Choices) > 0
    THEN [Content |-> chunk.Choices[1].Content,
          Done |-> chunk.Choices[1].FinishReason # "",
          FinishReason |-> chunk.Choices[1].FinishReason]
    ELSE [Content |-> "", Done |-> FALSE, FinishReason |-> ""]

\* The closure openAIAdapter.CompletionStream passes as onChunk: the delta
\* it hands to onDelta.
OpenAIDelta(chunk) ==
    IF Len(chunk.Choices) > 0
    THEN [Content |-> chunk.Choices[1].Content,
          Done |-> chunk.Choices[1].FinishReason = "stop",
          FinishReason |-> chunk.Choices[1].FinishReason]
    ELSE [Content |-> "", Done |-> FALSE, FinishReason |-> ""]

\* The closure localAdapter.CompletionStream passes as onChunk.
LocalDelta(chunk) == [Content |-> chunk.Content, Done |-> chunk.Done, FinishReason |-> ""]

\* Mutant of CallbackError: the callback's error is wrapped like the others.
CallbackError_Wrapped(err) == <<"streaming stopped by callback: ">> \o err

\* What the client returns when onChunk returned err.
CallbackError(err) == err

\* `if err := onChunk(chunk); err != nil { return err }` with the adapter's
\* closure as onChunk: calling a nil onDelta panics (the deferred body.Close
\* runs while the panic unwinds).
Deliver(c, delta) ==
    IF c.onDeltaNil THEN [c EXCEPT !.pc = "panicked"]
    ELSE LET ds == Append(c.deltas, delta) IN
         IF c.stopAt = Len(ds)
         THEN [c EXCEPT !.deltas = ds, !.pc = "returned", !.err = CallbackError(StopSignal)]
         ELSE [c EXCEPT !.deltas = ds]

UnmarshalChunkError == <<"failed to unmarshal stream chunk: ", JSONSyntaxError>>

\* Mutant of ScanEnd: a delta held back by the loop is delivered after it.
ScanEnd_FlushBuffered(c) ==
    [c EXCEPT !.pc = "returned",
              !.deltas = Append(c.deltas, [Content |-> "", Done |-> TRUE, FinishReason |-> ""])]

ReadStreamError == <<"error reading stream: ", "unexpected EOF">>

\* Mutant of ScanEnd: an input that ends without a terminal line is an error.
ScanEnd_EOFIsError(c) ==
    [c EXCEPT !.pc = "returned", !.err = <<"stream ended before completion">>]

\* Mutant of ScanEnd: the error of the scanner is not looked at.
ScanEnd_IgnoreReadError(c) == [c EXCEPT !.pc = "returned"]

\* After the loop, when scanner.Scan() returned false: scanner.Err().
ScanEnd(c) ==
    IF c.readErr
    THEN [c EXCEPT !.pc = "returned", !.err = ReadStreamError]
    ELSE [c EXCEPT !.pc = "returned"]

\* After the loop, when it was left by break: scanner.Err() is the error the
\* scanner has recorded so far, if any; it keeps handing out the lines it has
\* buffered after its reader failed.
BreakLoop(c) ==
    IF c.readErr /\ c.errAhead
    THEN [c EXCEPT !.pc = "returned", !.err = ReadStreamError]
    ELSE [c EXCEPT !.pc = "returned"]

\* Mutant of OpenAIStreamIter: the sentinel is delivered as a terminal delta.
OpenAIStreamIter_TerminalDelta(c) ==
    LET line == TrimSpace(c.body[c.pos + 1])
        c1 == [c EXCEPT !.pos = c.pos + 1]
        data == TrimDataPrefix(line)
        chunk == CloudUnmarshalChunk(data)
        c2 == Deliver(c1, [Content |-> "", Done |-> TRUE, FinishReason |-> "stop"])
    IN  IF line = <<>> THEN c1
        ELSE IF ~HasDataPrefix(line) THEN c1
        ELSE IF data = <<Sentinel>>
        THEN (IF c2.pc = "reading" THEN BreakLoop(c2) ELSE c2)
        ELSE IF ~chunk.ok THEN [c1 EXCEPT !.pc = "returned", !.err = UnmarshalChunkError]
        ELSE Deliver(c1, OpenAIDelta(chunk))

\* Mutant of OpenAIStreamIter: a chunk without choices is skipped.
OpenAIStreamIter_SkipNoChoices(c) ==
    LET line == TrimSpace(c.body[c.pos + 1])
        c1 == [c EXCEPT !.pos = c.pos + 1]
        data == TrimDataPrefix(line)
        chunk == CloudUnmarshalChunk(data)
    IN  IF line = <<>> THEN c1
        ELSE IF ~HasDataPrefix(line) THEN c1
        ELSE IF data = <<Sentinel>> THEN BreakLoop(c1)
        ELSE IF ~chunk.ok THEN [c1 EXCEPT !.pc = "returned", !.err = UnmarshalChunkError]
        ELSE IF chunk.Choices = <<>> THEN c1
        ELSE Deliver(c1, OpenAIDelta(chunk))

\* Mutant of OpenAIStreamIter: a blank line is looked at again instead of
\* being consumed.
OpenAIStreamIter_StuckOnBlank(c) ==
    LET line == TrimSpace(c.body[c.pos + 1])
        c1 == [c EXCEPT !.pos = c.pos + 1]
        data == TrimDataPrefix(line)
        chunk == CloudUnmarshalChunk(data)
    IN  IF line = <<>> THEN c
        ELSE IF ~HasDataPrefix(line) THEN c1
        ELSE IF data = <<Sentinel>> THEN BreakLoop(c1)
        ELSE IF ~chunk.ok THEN [c1 EXCEPT !.pc = "returned", !.err = UnmarshalChunkError]
        ELSE Deliver(c1, OpenAIDelta(chunk))

\* One iteration of the read loop of openai/chats.Client.CompletionStream on
\* the next line of the body.
OpenAIStreamIter(c) ==
    LET line == TrimSpace(c.body[c.pos + 1])
        c1 == [c EXCEPT !.pos = c.pos + 1]
        data == TrimDataPrefix(line)
        chunk == CloudUnmarshalChunk(data)
    IN  IF line = <<>> THEN c1
        ELSE IF ~HasDataPrefix(line) THEN c1
        ELSE IF data = <<Sentinel>> THEN BreakLoop(c1)
        ELSE IF ~chunk.ok THEN [c1 EXCEPT !.pc = "returned", !.err = UnmarshalChunkError]
        ELSE Deliver(c1, OpenAIDelta(chunk))

\* Mutant of LocalStreamIter: the loop does not stop at a chunk with Done.
LocalStreamIter_NoBreakOnDone(c) ==
    LET line == TrimSpace(c.body[c.pos + 1])
        c1 == [c EXCEPT !.pos = c.pos + 1]
        chunk == LocalUnmarshalChunk(line)
    IN  IF line = <<>> THEN c1
        ELSE IF ~chunk.ok THEN [c1 EXCEPT !.pc = "returned", !.err = UnmarshalChunkError]
        ELSE Deliver(c1, LocalDelta(chunk))

\* Mutant of LocalStreamIter: a line that does not parse is skipped.
LocalStreamIter_SkipBadLine(c) ==
    LET line == TrimSpace(c.body[c.pos + 1])
        c1 == [c EXCEPT !.pos = c.pos + 1]
        chunk == LocalUnmarshalChunk(line)
        c2 == Deliver(c1, LocalDelta(chunk))
    IN  IF line = <<>> THEN c1
        ELSE IF ~chunk.ok THEN c1
        ELSE IF c2.pc # "reading" THEN c2
        ELSE IF chunk.Done THEN BreakLoop(c2)
        ELSE c2

\* One iteration of the read loop of local/chats.Client.CompletionStream.
LocalStreamIter(c) ==
    LET line == TrimSpace(c.body[c.pos + 1])
        c1 == [c EXCEPT !.pos = c.pos + 1]
        chunk == LocalUnmarshalChunk(line)
        c2 == Deliver(c1, LocalDelta(chunk))
    IN  IF line = <<>> THEN c1
        ELSE IF ~chunk.ok THEN [c1 EXCEPT !.pc = "returned", !.err = UnmarshalChunkError]
        ELSE IF c2.pc # "reading" THEN c2
        ELSE IF chunk.Done THEN BreakLoop(c2)
        ELSE c2

\* Mutant of StreamReturn: a callback stop leaves without closing the body.
StreamReturn_LeakOnCallbackStop(c) ==
    IF c.pc = "reading" \/ c.err = StopSignal THEN c ELSE CloseBody(c)

\* The defer body.Close() of CompletionStream: it runs when the call leaves the
\* read loop, by a return or by a panic.
StreamReturn(c) == IF c.pc = "reading" THEN c ELSE CloseBody(c)

\* The transport of a health check: the GET fails or is answered with a status.
HealthTransports ==
    {FailedTransport}
    \cup {[net |-> "ok", status |-> s, raw |-> "", body |-> <<>>, readErr |-> FALSE, errAhead |-> FALSE] :
            s \in Statuses}

\* openai/chats.Client.Health.
OpenAIHealth(client, t) ==
    LET c == NewCall("Health", <<>>)
        q == [c EXCEPT !.request = [NoRequest EXCEPT !.sent = TRUE, !.Method = "GET",
                                       !.URL = OpenAIModelsURL,
                                       !.Authorization = client.apiKey]]
    IN  IF ~client.enabled THEN [c EXCEPT !.err = NotEnabledError(client)]
        ELSE IF t.net = "fail"
        THEN [Sent(q, t) EXCEPT !.err = <<"OpenAI health check failed: ", "connection refused">>]
        ELSE IF t.status # 200
        THEN [CloseBody(Sent(q, t)) EXCEPT
                 !.err = <<"OpenAI health check returned status ", Itoa(t.status)>>]
        ELSE CloseBody(Sent(q, t))

\* local/chats.Client.Health.
LocalHealth(client, t) ==
    LET c == NewCall("Health", <<>>)
        q == [c EXCEPT !.request = [NoRequest EXCEPT !.sent = TRUE, !.Method = "GET",
                                       !.URL = client.host]]
    IN  IF ~client.enabled THEN [c EXCEPT !.err = NotEnabledError(client)]
        ELSE IF t.net = "fail"
        THEN [Sent(q, t) EXCEPT
                 !.err = <<"local LLM health check failed: ", "connection refused">>]
        ELSE IF t.status # 200
        THEN [CloseBody(Sent(q, t)) EXCEPT
                 !.err = <<"local LLM health check returned status ", Itoa(t.status)>>]
        ELSE CloseBody(Sent(q, t))

\* openAIAdapter.Health / localAdapter.Health.
AdapterHealth(client, t) ==
    IF client.kind = "openai" THEN OpenAIHealth(client, t) ELSE LocalHealth(client, t)

\* Mutant of ClientAfterHealth: a failed health check disables the client.
ClientAfterHealth_DisableOnFailure(client, c) ==
    IF c.err # NoErr THEN [client EXCEPT !.enabled = FALSE] ELSE client

\* The client after Health returned c: Health assigns no field of the client.
ClientAfterHealth(client, c) == client

\* Client.IsEnabled and Client.GetModel behind the adapters' methods.
ClientIsEnabled(client) == client.enabled

ClientGetModel(client) == client.model

(***************************************************************************)
(* The caller.                                                             *)
(***************************************************************************)
(***************************************************************************)
(* The config package: the process-wide configuration behind LoadConfig.   *)
(*   env        the environment loadConfig reads (after the .env overload) *)
(*   instance   configInstance                                             *)
(*   done, mutex   configOnce: its done flag and the holder of its mutex   *)
(*              (0: free)                                                  *)
(*   loads      runs of loadConfig                                         *)
(*   pc, local, calls   per goroutine: where its LoadConfig call is, the   *)
(*              *Config loadConfig returned to it, and its calls so far    *)
(*   ret        per goroutine: what its last LoadConfig returned           *)
(*   returned   every instance returned so far                             *)
(***************************************************************************)
MaxCallers == 3

MaxCalls == 2

Goroutines == 1..MaxCallers

NoEnv == [Port |-> "", WeaviateHost |-> ""]

NilInstance == [isNil |-> TRUE, addr |-> 0, Port |-> "", WeaviateHost |-> ""]

ConfigStart(env) ==
    [env |-> env, instance |-> NilInstance, done |-> FALSE, mutex |-> 0, loads |-> 0,
     pc |-> [g \in Goroutines |-> "idle"],
     local |-> [g \in Goroutines |-> NilInstance],
     calls |-> [g \in Goroutines |-> 0],
     ret |-> [g \in Goroutines |-> [instance |-> NilInstance, err |-> NoErr]],
     returned |-> {}]

\* loadConfig: a new Config filled from the environment; its address is new.
loadConfig(c) ==
    [isNil |-> FALSE, addr |-> c.loads + 1, Port |-> c.env.Port,
     WeaviateHost |-> c.env.WeaviateHost]

\* Mutant of OnceMutexFree: the slow path of Do does not wait for the mutex.
OnceMutexFree_NoMutex(c) == TRUE

\* sync.Once.Do, slow path: o.m.Lock() goes through when the mutex is free.
OnceMutexFree(c) == c.mutex = 0

InitConfig ==
    /\ cfg = NilConfig
    /\ built = FALSE
    /\ provider = NilProvider
    /\ factoryErr = NoErr
    /\ call = IdleCall
    /\ peer = IdleCall
    /\ config \in {ConfigStart(e) :
                    e \in {NoEnv, [Port |-> "8080", WeaviateHost |-> "weaviate:8080"]}}

\* A goroutine calls LoadConfig: configOnce.Do reads the done flag; when it is
\* set Do returns at once, otherwise the goroutine goes for the mutex.
LoadConfigCall ==
    /\ \E g \in Goroutines :
        /\ config.pc[g] = "idle" /\ config.calls[g] < MaxCalls
        /\ config' = [config EXCEPT
                         !.calls[g] = @ + 1,
                         !.pc[g] = IF config.done THEN "return" ELSE "lock"]
    /\ UNCHANGED <<cfg, built, provider, factoryErr, call, peer>>

\* Do, slow path: with the mutex held the done flag is read again; the
\* function runs only when it is still unset.
OnceLock ==
    /\ \E g \in Goroutines :
        /\ config.pc[g] = "lock" /\ OnceMutexFree(config)
        /\ config' = IF config.done
                      THEN [config EXCEPT !.pc[g] = "return"]
                      ELSE [config EXCEPT !.mutex = g, !.pc[g] = "load"]
    /\ UNCHANGED <<cfg, built, provider, factoryErr, call, peer>>

\* The function passed to Do: loadConfig() runs ...
OnceLoad ==
    /\ \E g \in Goroutines :
        /\ config.pc[g] = "load"
        /\ config' = [config EXCEPT !.loads = @ + 1, !.local[g] = loadConfig(config),
                                    !.pc[g] = "assign"]
    /\ UNCHANGED <<cfg, built, provider, factoryErr, call, peer>>

\* ... and its result is stored in configInstance.
OnceAssign ==
    /\ \E g \in Goroutines :
        /\ config.pc[g] = "assign"
        /\ config' = [config EXCEPT !.instance = config.local[g], !.pc[g] = "unlock"]
    /\ UNCHANGED <<cfg, built, provider, factoryErr, call, peer>>

\* Do, slow path: the deferred store of done and the unlock.
OnceUnlock ==
    /\ \E g \in Goroutines :
        /\ config.pc[g] = "unlock"
        /\ config' = [config EXCEPT !.done = TRUE,
                                    !.mutex = IF config.mutex = g THEN 0 ELSE @,
                                    !.pc[g] = "return"]
    /\ UNCHANGED <<cfg, built, provider, factoryErr, call, peer>>

\* return configInstance, nil
LoadConfigReturn ==
    /\ \E g \in Goroutines :
        /\ config.pc[g] = "return"
        /\ config' = [config EXCEPT
                         !.ret[g] = [instance |-> config.instance, err |-> NoErr],
                         !.returned = @ \cup {config.instance},
                         !.pc[g] = "idle"]
    /\ UNCHANGED <<cfg, built, provider, factoryErr, call, peer>>

NextConfig ==
    \/ LoadConfigCall
    \/ OnceLock
    \/ OnceLoad
    \/ OnceAssign
    \/ OnceUnlock
    \/ LoadConfigReturn

SpecConfig == InitConfig /\ [][NextConfig]_vars

MessageLists == {<<>>, <<[Role |-> "user", Content |-> "hi"]>>}

Init ==
    /\ cfg = NilConfig
    /\ built = FALSE
    /\ provider = NilProvider
    /\ factoryErr = NoErr
    /\ call = IdleCall
    /\ peer = IdleCall
    /\ config = ConfigStart(NoEnv)

\* The caller constructs its provider (at startup, or again between calls).
NewChatProvider ==
    /\ call.pc = "idle"
    /\ \E c \in Configs :
        /\ cfg' = c
        /\ provider' = NewChatProviderResult(c).provider
        /\ factoryErr' = NewChatProviderResult(c).err
    /\ built' = TRUE
    /\ call' = IdleCall
    /\ UNCHANGED <<peer, config>>

\* The caller uses the provider only when construction returned no error.
\* Calls come one after the other: the results of one are dropped before the
\* next starts.
Usable == built /\ factoryErr = NoErr /\ call.pc = "idle"

OpenAICompletion ==
    /\ Usable /\ provider.itype = "*openAIAdapter"
    /\ \E msgs \in MessageLists :
       \E t \in {FailedTransport} \cup ErrorTransports
                \cup ResponseTransports(CloudResponses) :
          call' = openAIAdapterCompletion(provider.client, msgs, t)
    /\ UNCHANGED <<cfg, built, provider, factoryErr, peer, config>>

LocalCompletion ==
    /\ Usable /\ provider.itype = "*localAdapter"
    /\ \E msgs \in MessageLists :
       \E t \in {FailedTransport} \cup ErrorTransports
                \cup ResponseTransports(LocalResponses) :
          call' = localAdapterCompletion(provider.client, msgs, t)
    /\ UNCHANGED <<cfg, built, provider, factoryErr, peer, config>>

OpenAICompletionStream ==
    /\ Usable /\ provider.itype = "*openAIAdapter"
    /\ \E msgs \in MessageLists, onDeltaNil \in BOOLEAN, stopAt \in 0..MaxLines :
       \E t \in {FailedTransport} \cup ErrorTransports \cup StreamTransports(CloudLines) :
          /\ onDeltaNil => stopAt = 0
          /\ call' = AdapterStreamStart(provider.client, msgs, onDeltaNil, stopAt, t)
    /\ UNCHANGED <<cfg, built, provider, factoryErr, peer, config>>

LocalCompletionStream ==
    /\ Usable /\ provider.itype = "*localAdapter"
    /\ \E msgs \in MessageLists, onDeltaNil \in BOOLEAN, stopAt \in 0..MaxLines :
       \E t \in {FailedTransport} \cup ErrorTransports \cup StreamTransports(LocalLines) :
          /\ onDeltaNil => stopAt = 0
          /\ call' = AdapterStreamStart(provider.client, msgs, onDeltaNil, stopAt, t)
    /\ UNCHANGED <<cfg, built, provider, factoryErr, peer, config>>

Health ==
    /\ Usable
    /\ \E t \in HealthTransports :
        /\ call' = AdapterHealth(provider.client, t)
        /\ provider' = [provider EXCEPT
                           !.client = ClientAfterHealth(provider.client,
                                                        AdapterHealth(provider.client, t))]
    /\ UNCHANGED <<cfg, built, factoryErr, peer, config>>

IsEnabled ==
    /\ Usable
    /\ call' = [NewCall("IsEnabled", <<>>) EXCEPT !.enabled = ClientIsEnabled(provider.client)]
    /\ UNCHANGED <<cfg, built, provider, factoryErr, peer, config>>

GetModel ==
    /\ Usable
    /\ call' = [NewCall("GetModel", <<>>) EXCEPT !.model = ClientGetModel(provider.client)]
    /\ UNCHANGED <<cfg, built, provider, factoryErr, peer, config>>

\* scanner.Scan() and the loop body, or the end of the loop.
OpenAIScan ==
    /\ call.pc = "reading" /\ provider.client.kind = "openai"
    /\ call' = StreamReturn(IF call.pos < Len(call.body) THEN OpenAIStreamIter(call)
                            ELSE ScanEnd(call))
    /\ UNCHANGED <<cfg, built, provider, factoryErr, peer, config>>

LocalScan ==
    /\ call.pc = "reading" /\ provider.client.kind = "local"
    /\ call' = StreamReturn(IF call.pos < Len(call.body) THEN LocalStreamIter(call)
                            ELSE ScanEnd(call))
    /\ UNCHANGED <<cfg, built, provider, factoryErr, peer, config>>

\* The call has returned (or panicked and was recovered): the caller drops its
\* results; nothing of a call outlives it.
Discard ==
    /\ call.pc \in {"returned", "panicked"}
    /\ call' = IdleCall
    /\ UNCHANGED <<cfg, built, provider, factoryErr, peer, config>>

Next ==
    \/ NewChatProvider
    \/ OpenAICompletion
    \/ LocalCompletion
    \/ OpenAICompletionStream
    \/ LocalCompletionStream
    \/ OpenAIScan
    \/ LocalScan
    \/ Health
    \/ IsEnabled
    \/ GetModel
    \/ Discard

Spec == Init /\ [][Next]_vars

(***************************************************************************)
(* Conversations: a constructed adapter is handed conversations of several *)
(* messages; what matters is the request each call puts on the wire.       *)
(***************************************************************************)
MaxMsgs == 2

Conversations == UNION {[1..n -> [Role : Roles, Content : {"hi", "ok"}]] : n \in 0..MaxMsgs}

\* What the upstream does with the request of a conversation: the connection
\* fails, or it answers 500, or 200 with a response or a stream of one line
\* at most.
RequestTransports(client) ==
    {FailedTransport}
    \cup {t \in ErrorTransports : t.status = 500 /\ t.raw = ""}
    \cup {t \in ResponseTransports(IF client.kind = "openai" THEN {CloudRespJSON}
                                    ELSE {LocalRespJSON}) :
            t.status = 200 /\ ~t.readErr}

RequestStreamTransports(client) ==
    {FailedTransport}
    \cup {t \in StreamTransports(IF client.kind = "openai" THEN CloudLines ELSE LocalLines) :
            t.status = 200 /\ ~t.readErr /\ Len(t.body) <= 1}

AdapterCompletion(client, msgs, t) ==
    IF client.kind = "openai" THEN openAIAdapterCompletion(client, msgs, t)
    ELSE localAdapterCompletion(client, msgs, t)

\* The state after a successful NewChatProvider.
InitRequests ==
    /\ cfg \in {c \in Configs : NewChatProviderResult(c).err = NoErr}
    /\ built = TRUE
    /\ provider = NewChatProviderResult(cfg).provider
    /\ factoryErr = NoErr
    /\ call = IdleCall
    /\ peer = IdleCall
    /\ config = ConfigStart(NoEnv)

RequestCompletion ==
    /\ Usable
    /\ \E msgs \in Conversations :
       \E t \in RequestTransports(provider.client) :
          call' = AdapterCompletion(provider.client, msgs, t)
    /\ UNCHANGED <<cfg, built, provider, factoryErr, peer, config>>

RequestStream ==
    /\ Usable
    /\ \E msgs \in Conversations :
       \E t \in RequestStreamTransports(provider.client) :
          call' = AdapterStreamStart(provider.client, msgs, FALSE, 0, t)
    /\ UNCHANGED <<cfg, built, provider, factoryErr, peer, config>>

NextRequests ==
    \/ RequestCompletion
    \/ RequestStream
    \/ OpenAIScan
    \/ LocalScan
    \/ Discard

SpecRequests == InitRequests /\ [][NextRequests]_vars

(***************************************************************************)
(* Concurrent callers: two goroutines, call and peer, use one constructed  *)
(* adapter at the same time; their steps interleave. What a call keeps     *)
(* (request, response, scanner, position) is local to its goroutine; the   *)
(* client is shared.                                                       *)
(***************************************************************************)
Callers == {"call", "peer"}

Mine(who) == IF who = "call" THEN call ELSE peer

Theirs(who) == IF who = "call" THEN peer ELSE call

SetCaller(who, c) ==
    IF who = "call" THEN call' = c /\ peer' = peer ELSE peer' = c /\ call' = call

ConcMessages ==
    {<<[Role |-> "user", Content |-> "hi"]>>, <<[Role |-> "system", Content |-> "ok"]>>}

ConcBodies(client) ==
    IF client.kind = "openai"
    THEN {<<(<<DataPrefix, HiChunk>>), (<<DataPrefix, Sentinel>>)>>,
          <<(<<DataPrefix, StopChunk>>), (<<DataPrefix, LengthChunk>>)>>}
    ELSE {<<(<<HiLine>>), (<<DoneLine, " ">>)>>, <<(<<DoneLine, " ">>), (<<HiLine>>)>>}

ConcTransports(client) ==
    {t \in RequestTransports(client) : t.status \in {0, 200}}

ConcStreamTransports(client) ==
    {[net |-> "ok", status |-> 200, raw |-> "", body |-> b, readErr |-> FALSE, errAhead |-> FALSE] :
        b \in ConcBodies(client)}

ConcHealthTransports == {t \in HealthTransports : t.status \in {0, 200, 500}}

\* Mutant of ScanStep: the calls read through one scanner kept on the client,
\* so a step of one call consumes the line the other call is at.
ScanStep_SharedScanner(client, mine, theirs) ==
    LET shared == IF theirs.pc = "reading" THEN theirs.body ELSE mine.body
        c == [mine EXCEPT !.body = shared]
        r == IF c.pos < Len(c.body)
             THEN (IF client.kind = "openai" THEN OpenAIStreamIter(c) ELSE LocalStreamIter(c))
             ELSE ScanEnd(c)
    IN  StreamReturn([r EXCEPT !.body = mine.body])

\* One step of the read loop of a call: scanner := bufio.NewScanner(body) is a
\* local of the call, so the step reads the call's own body whatever the
\* other call holds.
ScanStep(client, mine, theirs) ==
    StreamReturn(IF mine.pos < Len(mine.body)
                 THEN (IF client.kind = "openai" THEN OpenAIStreamIter(mine)
                       ELSE LocalStreamIter(mine))
                 ELSE ScanEnd(mine))

ConcCompletion ==
    /\ \E who \in Callers :
        /\ Mine(who).pc = "idle"
        /\ \E msgs \in ConcMessages, t \in ConcTransports(provider.client) :
              SetCaller(who, AdapterCompletion(provider.client, msgs, t))
    /\ UNCHANGED <<cfg, built, provider, factoryErr, config>>

ConcCompletionStream ==
    /\ \E who \in Callers :
        /\ Mine(who).pc = "idle"
        /\ \E msgs \in ConcMessages, stopAt \in {0, 1},
              t \in ConcStreamTransports(provider.client) :
              SetCaller(who, AdapterStreamStart(provider.client, msgs, FALSE, stopAt, t))
    /\ UNCHANGED <<cfg, built, provider, factoryErr, config>>

ConcHealth ==
    /\ \E who \in Callers :
        /\ Mine(who).pc = "idle"
        /\ \E t \in ConcHealthTransports :
            /\ SetCaller(who, AdapterHealth(provider.client, t))
            /\ provider' = [provider EXCEPT
                               !.client = ClientAfterHealth(provider.client,
                                                            AdapterHealth(provider.client, t))]
    /\ UNCHANGED <<cfg, built, factoryErr, config>>

ConcIsEnabled ==
    /\ \E who \in Callers :
        /\ Mine(who).pc = "idle"
        /\ SetCaller(who, [NewCall("IsEnabled", <<>>) EXCEPT
                              !.enabled = ClientIsEnabled(provider.client)])
    /\ UNCHANGED <<cfg, built, provider, factoryErr, config>>

ConcGetModel ==
    /\ \E who \in Callers :
        /\ Mine(who).pc = "idle"
        /\ SetCaller(who, [NewCall("GetModel", <<>>) EXCEPT
                              !.model = ClientGetModel(provider.client)])
    /\ UNCHANGED <<cfg, built, provider, factoryErr, config>>

ConcScan ==
    /\ \E who \in Callers :
        /\ Mine(who).pc = "reading"
        /\ SetCaller(who, ScanStep(provider.client, Mine(who), Theirs(who)))
    /\ UNCHANGED <<cfg, built, provider, factoryErr, config>>

ConcDiscard ==
    /\ \E who \in Callers :
        /\ Mine(who).pc \in {"returned", "panicked"}
        /\ SetCaller(who, IdleCall)
    /\ UNCHANGED <<cfg, built, provider, factoryErr, config>>

NextConc ==
    \/ ConcCompletion
    \/ ConcCompletionStream
    \/ ConcHealth
    \/ ConcIsEnabled
    \/ ConcGetModel
    \/ ConcScan
    \/ ConcDiscard

SpecConc == InitRequests /\ [][NextConc]_vars

(***************************************************************************)
(* Options: what the cloud request carries of the caller's ChatOptions.    *)
(* A float64 is one of a few literals ("-0" is negative zero, equal to 0   *)
(* in Go); a []string is nil, or a list; a pointer field is nil or points  *)
(* to a value.                                                             *)
(***************************************************************************)
Floats == {"0", "-0", "0.7", "2"}

FloatIsZero(f) == f \in {"0", "-0"}

NilSlice == [isNil |-> TRUE, items |-> <<>>]

NilOptions ==
    [isNil |-> TRUE, Temperature |-> "0", TopP |-> "0", MaxTokens |-> 0, Stop |-> NilSlice]

\* The *ChatOptions a caller passes: nil, or a struct.
ChatOptionsValues ==
    {NilOptions}
    \cup [isNil : {FALSE}, Temperature : Floats, TopP : Floats, MaxTokens : {-1, 0, 256},
          Stop : {NilSlice, [isNil |-> FALSE, items |-> <<>>],
                  [isNil |-> FALSE, items |-> <<"END">>]}]

\* factory.go toOpenAIOptions.
toOpenAIOptions(opts) ==
    IF opts.isNil THEN NilOptions
    ELSE [isNil |-> FALSE, Temperature |-> opts.Temperature, TopP |-> opts.TopP,
          MaxTokens |-> opts.MaxTokens, Stop |-> opts.Stop]

NilFloatPtr == [isNil |-> TRUE, val |-> "0"]

NilIntPtr == [isNil |-> TRUE, val |-> 0]

\* Mutant of OpenAIBuildRequestOptions: the temperature is forwarded whenever
\* options were given.
OpenAIBuildRequestOptions_ForwardZero(opts) ==
    IF opts.isNil
    THEN [Temperature |-> NilFloatPtr, TopP |-> NilFloatPtr, MaxTokens |-> NilIntPtr,
          Stop |-> NilSlice]
    ELSE [Temperature |-> [isNil |-> FALSE, val |-> opts.Temperature],
          TopP |-> IF ~FloatIsZero(opts.TopP) THEN [isNil |-> FALSE, val |-> opts.TopP]
                   ELSE NilFloatPtr,
          MaxTokens |-> IF opts.MaxTokens # 0 THEN [isNil |-> FALSE, val |-> opts.MaxTokens]
                        ELSE NilIntPtr,
          Stop |-> IF Len(opts.Stop.items) > 0 THEN opts.Stop ELSE NilSlice]

\* The option fields of the CompletionRequest that buildRequest returns.
OpenAIBuildRequestOptions(opts) ==
    IF opts.isNil
    THEN [Temperature |-> NilFloatPtr, TopP |-> NilFloatPtr, MaxTokens |-> NilIntPtr,
          Stop |-> NilSlice]
    ELSE [Temperature |-> IF ~FloatIsZero(opts.Temperature)
                          THEN [isNil |-> FALSE, val |-> opts.Temperature] ELSE NilFloatPtr,
          TopP |-> IF ~FloatIsZero(opts.TopP) THEN [isNil |-> FALSE, val |-> opts.TopP]
                   ELSE NilFloatPtr,
          MaxTokens |-> IF opts.MaxTokens # 0 THEN [isNil |-> FALSE, val |-> opts.MaxTokens]
                        ELSE NilIntPtr,
          Stop |-> IF Len(opts.Stop.items) > 0 THEN opts.Stop ELSE NilSlice]

\* json.Marshal of those fields under their omitempty tags: a pointer field
\* is written when it is not nil, a slice when it is not empty.
MarshalRequestOptions(req) ==
    [temperature |-> [present |-> ~req.Temperature.isNil, value |-> req.Temperature.val],
     top_p |-> [present |-> ~req.TopP.isNil, value |-> req.TopP.val],
     max_tokens |-> [present |-> ~req.MaxTokens.isNil, value |-> req.MaxTokens.val],
     stop |-> [present |-> Len(req.Stop.items) > 0, value |-> req.Stop.items]]

NoWireOptions == MarshalRequestOptions(OpenAIBuildRequestOptions(NilOptions))

InitOptions ==
    /\ cfg = NilConfig
    /\ built = FALSE
    /\ provider = NilProvider
    /\ factoryErr = NoErr
    /\ peer = IdleCall
    /\ config = ConfigStart(NoEnv)
    /\ call \in [op : {"buildRequest"}, pc : {"called"}, opts : ChatOptionsValues,
                  wire : {NoWireOptions}]

\* The adapter converts the caller's options and the client builds and
\* marshals its request.
BuildRequestOptions ==
    /\ call.pc = "called"
    /\ call' = [call EXCEPT
                   !.pc = "built",
                   !.wire = MarshalRequestOptions(
                                OpenAIBuildRequestOptions(toOpenAIOptions(call.opts)))]
    /\ UNCHANGED <<cfg, built, provider, factoryErr, peer, config>>

NextOptions == BuildRequestOptions

SpecOptions == InitOptions /\ [][NextOptions]_vars

(***************************************************************************)
(* Streams: one adapter of each provider runs streaming calls whose        *)
(* callback returns on every invocation. The read loop is a blocking loop  *)
(* on the caller's goroutine over a body of finitely many lines:           *)
(* scanner.Scan() returns for each line and at the end of the input, so    *)
(* the loop step is taken whenever the call is reading (weak fairness).    *)
(***************************************************************************)
StreamConfigs ==
    {c \in Configs : /\ NewChatProviderResult(c).err = NoErr
                     /\ c.OpenAIModel = "" /\ c.LocalModel = "" /\ c.LocalHost = <<>>}

InitStreams ==
    /\ cfg \in StreamConfigs
    /\ built = TRUE
    /\ provider = NewChatProviderResult(cfg).provider
    /\ factoryErr = NoErr
    /\ call = IdleCall
    /\ peer = IdleCall
    /\ config = ConfigStart(NoEnv)

StartStream ==
    /\ Usable
    /\ \E stopAt \in {0, 1} :
       \E t \in {FailedTransport}
                \cup {u \in StreamTransports(IF provider.client.kind = "openai"
                                             THEN CloudLines ELSE LocalLines) :
                        u.status = 200} :
          call' = AdapterStreamStart(provider.client,
                                     <<[Role |-> "user", Content |-> "hi"]>>, FALSE, stopAt, t)
    /\ UNCHANGED <<cfg, built, provider, factoryErr, peer, config>>

NextStreams ==
    \/ StartStream
    \/ OpenAIScan
    \/ LocalScan
    \/ Discard

SpecStreams ==
    InitStreams /\ [][NextStreams]_vars /\ WF_vars(OpenAIScan) /\ WF_vars(LocalScan)

(***************************************************************************)
(* Chunks: the closure of openAIAdapter.CompletionStream on decoded chunks *)
(* with any number of choices.                                             *)
(***************************************************************************)
MaxChoices == 2

ChunkChoices == [Content : {"", "Hi", "there"}, FinishReason : {"", "stop", "length"}]

StreamChunks ==
    {[ok |-> TRUE, Choices |-> cs] :
        cs \in UNION {[1..n -> ChunkChoices] : n \in 0..MaxChoices}}

InitChunks ==
    /\ cfg = NilConfig
    /\ built = FALSE
    /\ provider = NilProvider
    /\ factoryErr = NoErr
    /\ peer = IdleCall
    /\ config = ConfigStart(NoEnv)
    /\ call \in [op : {"onChunk"}, pc : {"called"}, chunk : StreamChunks, delta : {[Content |-> "", Done |-> FALSE, FinishReason |-> ""]}]

\* The closure runs on the chunk and hands its delta to onDelta.
TranslateChunk ==
    /\ call.pc = "called"
    /\ call' = [call EXCEPT !.pc = "delivered", !.delta = OpenAIDelta(call.chunk)]
    /\ UNCHANGED <<cfg, built, provider, factoryErr, peer, config>>

NextChunks == TranslateChunk

SpecChunks == InitChunks /\ [][NextChunks]_vars

(***************************************************************************)
(* Properties.                                                             *)
(***************************************************************************)
IsCall == call.op \in {"Completion", "CompletionStream"}

IsStream == call.op = "CompletionStream"

OnOpenAI == provider.client.kind = "openai"

OnLocal == provider.client.kind = "local"

Returned == call.pc = "returned"

\* The deltas with done = true among ds.
DoneIndexes(ds) == {i \in DOMAIN ds : ds[i].Done}

\* C1: on both adapters, Completion and CompletionStream with an empty message
\* list return an error, issue no HTTP request and invoke onDelta zero times.
C1_EmptyMessagesRejected ==
    (IsCall /\ call.messages = <<>>) =>
        /\ Returned
        /\ call.err = <<"at least one message is required">>
        /\ call.requests = 0
        /\ call.status = 0
        /\ call.deltas = <<>>
        /\ call.resp.isNil

C1_Witness ==
    /\ IsStream /\ OnLocal /\ call.messages = <<>> /\ Returned
    /\ call.err # NoErr /\ call.requests = 0

\* C2 as stated: every CompletionStream call that returns success delivered
\* exactly one delta with done = true, and delivered it last.
C2_ExactlyOneTerminalDelta ==
    (IsStream /\ Returned /\ call.err = NoErr) =>
        DoneIndexes(call.deltas) = {Len(call.deltas)} /\ call.deltas # <<>>

\* C2 as amended: on the local adapter at most one delivered delta has
\* done = true and, when there is one, it is the last delta delivered; a call
\* that returns success need not have delivered any.
C2_LocalTerminalDeltaIsLast ==
    (IsStream /\ OnLocal) =>
        /\ DoneIndexes(call.deltas) \subseteq {Len(call.deltas)}
        /\ (DoneIndexes(call.deltas) # {} /\ ~call.onDeltaNil) => Returned

C2_Witness ==
    /\ IsStream /\ OnLocal /\ Returned /\ call.err = NoErr
    /\ Len(call.deltas) = 2 /\ DoneIndexes(call.deltas) = {2}

\* Whether a line of the body, once reached by the read loop, is decoded into a
\* chunk and handed to the callback.
WellFormedChunks == {HiChunk, StopChunk, LengthChunk, NoChoiceChunk}

WellFormedLines == {HiLine, DoneLine, NoDoneLine}

IsFrame(kind, line) ==
    LET l == TrimSpace(line) IN
    IF kind = "openai"
    THEN Len(l) = 2 /\ l[1] = DataPrefix /\ l[2] \in WellFormedChunks
    ELSE Len(l) = 1 /\ l[1] \in WellFormedLines

\* The frames among the first n lines of the body.
FrameIndexes(kind, body, n) == {i \in 1..n : IsFrame(kind, body[i])}

\* C3: when onDelta returns the stop signal on its k-th invocation, the call
\* returns exactly that error value, onDelta has been invoked exactly k times,
\* and the last line read is the one that produced the k-th delta.
C3_CallbackStopPropagated ==
    /\ (IsStream /\ call.stopAt > 0 /\ Len(call.deltas) >= call.stopAt) =>
          /\ Returned
          /\ call.err = StopSignal
          /\ Len(call.deltas) = call.stopAt
          /\ call.pos > 0 /\ IsFrame(provider.client.kind, call.body[call.pos])
          /\ Cardinality(FrameIndexes(provider.client.kind, call.body, call.pos))
                = call.stopAt
    /\ (IsStream /\ call.err = StopSignal) => Len(call.deltas) = call.stopAt

C3_Witness ==
    /\ IsStream /\ OnOpenAI /\ Returned /\ call.err = StopSignal
    /\ call.stopAt = 2 /\ Len(call.deltas) = 2 /\ call.pos < Len(call.body)

\* C4 as stated: CompletionStream with a non-empty message list and a nil
\* onDelta returns an error before any HTTP request is issued, and never crashes.
C4_NilCallbackRejected ==
    (IsStream /\ call.onDeltaNil /\ call.messages # <<>>) =>
        Returned /\ call.err # NoErr /\ call.requests = 0

\* The first `data: [DONE]` line of a body (0 when there is none).
IsSentinelLine(line) == TrimSpace(line) = <<DataPrefix, Sentinel>>

FirstSentinel(body) ==
    IF \E i \in DOMAIN body : IsSentinelLine(body[i])
    THEN CHOOSE i \in DOMAIN body :
            IsSentinelLine(body[i]) /\ \A j \in 1..(i - 1) : ~IsSentinelLine(body[j])
    ELSE 0

\* The data: lines before line n whose payload does not parse.
MalformedBefore(body, n) ==
    {i \in 1..(n - 1) : LET l == TrimSpace(body[i]) IN
                         HasDataPrefix(l) /\ ~IsFrame("openai", body[i])}

DeltaUsage(d) == IF "Usage" \in DOMAIN d THEN d.Usage ELSE NoUsage

\* C6 as stated: on the local stream, a line with done = false and content "Hi"
\* then a line with done = true and eval_count = 5 give two onDelta invocations,
\* the second with done = true, and the caller receives usage with completion
\* tokens 5.
C6_LocalStreamUsage ==
    (IsStream /\ OnLocal /\ Returned /\ call.err = NoErr
        /\ call.body = <<(<<HiLine>>), (<<DoneLine, " ">>)>>) =>
        /\ Len(call.deltas) = 2
        /\ call.deltas[1].Content = "Hi" /\ ~call.deltas[1].Done
        /\ call.deltas[2].Done
        /\ \/ DeltaUsage(call.deltas[2]).CompletionTokens = 5
           \/ call.resp.Usage.CompletionTokens = 5

\* C7: a status outside 200..299 makes the call fail with no response and no
\* onDelta invocation; the cloud error contains the envelope's message when the
\* body is an error envelope with a non-empty message and the raw body
\* otherwise; the local error always contains the raw body.
C7_NonSuccessStatusFails ==
    (IsCall /\ call.requests > 0 /\ call.status # 0
        /\ (call.status < 200 \/ call.status > 299)) =>
        /\ Returned
        /\ call.err # NoErr
        /\ call.resp.isNil
        /\ call.deltas = <<>> /\ call.pos = 0
        /\ Contains(call.err, Itoa(call.status))
        /\ (OnOpenAI /\ call.raw = BadRequestJSON) =>
              Contains(call.err, "bad request") /\ ~Contains(call.err, call.raw)
        /\ (OnOpenAI /\ call.raw # BadRequestJSON) => Contains(call.err, call.raw)
        /\ OnLocal => Contains(call.err, call.raw)

C7_Witness ==
    /\ IsCall /\ OnOpenAI /\ call.status = 300 /\ call.raw = BadRequestJSON
    /\ Contains(call.err, "bad request") /\ Returned

\* C8: NewChatProvider with a tag other than "openai" and "local" (the empty
\* tag too) returns an error naming both supported variants and constructs no
\* client; a nil configuration fails; "openai" dispatches to the cloud adapter
\* and "local" to the local adapter.
C8_UnknownTagRejected ==
    built =>
        /\ cfg.isNil => factoryErr # NoErr /\ provider = NilProvider
        /\ (~cfg.isNil /\ cfg.Provider \notin {"openai", "local"}) =>
              /\ factoryErr # NoErr
              /\ Contains(factoryErr, "openai") /\ Contains(factoryErr, "local")
              /\ Contains(factoryErr, cfg.Provider)
              /\ provider = NilProvider
        /\ (~cfg.isNil /\ cfg.Provider = "openai") => provider.itype = "*openAIAdapter"
        /\ (~cfg.isNil /\ cfg.Provider = "local") => provider.itype = "*localAdapter"

C8_Witness ==
    /\ built /\ cfg.Provider = "azure" /\ factoryErr # NoErr
    /\ Contains(factoryErr, "openai") /\ Contains(factoryErr, "local")

\* C9 as stated: NewChatProvider returns either an error and the nil provider,
\* or no error and an adapter whose IsEnabled() is true.
C9_ErrorOrEnabledAdapter ==
    built =>
        \/ factoryErr # NoErr /\ IsNilInterface(provider)
        \/ factoryErr = NoErr /\ ~IsNilInterface(provider) /\ provider.client.enabled

\* C10 as stated: the local branch rejects a configuration that does not
\* satisfy the local Config.IsValid, as the cloud branch rejects one that does
\* not satisfy its Config.IsValid.
C10_BranchesValidate ==
    built =>
        /\ (~cfg.isNil /\ cfg.Provider = ProviderLocal
              /\ ~LocalConfigIsValid([Host |-> cfg.LocalHost, Model |-> cfg.LocalModel])) =>
              factoryErr # NoErr
        /\ (~cfg.isNil /\ cfg.Provider = ProviderOpenAI
              /\ ~OpenAIConfigIsValid([APIKey |-> cfg.OpenAIAPIKey,
                                       Model |-> cfg.OpenAIModel])) =>
              factoryErr # NoErr

Constructed == built /\ factoryErr = NoErr

\* C11: a successfully constructed adapter is enabled right after construction
\* and after any sequence of calls, whether they succeed or fail: IsEnabled()
\* returns true and no call is refused as "not enabled".
C11_AlwaysEnabled ==
    Constructed =>
        /\ provider.client.enabled
        /\ call.op = "IsEnabled" => call.enabled
        /\ call.op \in {"Completion", "CompletionStream", "Health"} =>
              call.err # NotEnabledError(provider.client)

C11_Witness ==
    /\ Constructed /\ OnOpenAI /\ call.op = "IsEnabled" /\ call.enabled /\ Returned

\* C12: GetModel() returns the configured model name when one was supplied and
\* otherwise the provider default ("gpt-4o-mini" cloud, "llama3:8b" local); it
\* is never empty, it is the model of every request body of the adapter, and it
\* is the same after any sequence of calls.
C12_EffectiveModel ==
    Constructed =>
        LET configured == IF OnOpenAI THEN cfg.OpenAIModel ELSE cfg.LocalModel
            default == IF OnOpenAI THEN "gpt-4o-mini" ELSE "llama3:8b"
            effective == IF configured # "" THEN configured ELSE default
        IN  /\ ClientGetModel(provider.client) = effective
            /\ effective # ""
            /\ call.op = "GetModel" => call.model = effective
            /\ (IsCall /\ call.request.sent) => call.request.Model = effective

C12_Witness ==
    /\ Constructed /\ OnLocal /\ cfg.LocalModel = ""
    /\ call.op = "GetModel" /\ call.model = "llama3:8b"

\* C16: Health() issues one GET (the models listing for cloud, the host root
\* for local) and never a chat-completion request; it leaves the adapter as
\* constructed whether it succeeds or fails, so that a Completion or
\* CompletionStream with valid arguments still issues its request.
C16_HealthIsAdvisory ==
    Constructed =>
        /\ provider = NewChatProviderResult(cfg).provider
        /\ call.op = "Health" =>
              /\ Returned /\ call.requests = 1
              /\ call.request.Method = "GET"
              /\ call.request.URL = IF OnOpenAI THEN OpenAIModelsURL ELSE provider.client.host
              /\ call.request.URL # OpenAIChatURL
              /\ call.request.URL # provider.client.host \o LocalChatEndpoint
              /\ call.request.Messages = <<>>
              /\ (call.status = 200) <=> (call.err = NoErr)
        /\ (IsCall /\ call.messages # <<>>) =>
              /\ call.requests = 1
              /\ call.request.Method = "POST"
              /\ call.request.URL = IF OnOpenAI THEN OpenAIChatURL
                                    ELSE provider.client.host \o LocalChatEndpoint

C16_Witness ==
    /\ Constructed /\ OnLocal /\ call.op = "Health" /\ call.status = 500
    /\ call.err # NoErr /\ provider.client.enabled

Succeeded == IsCall /\ Returned /\ call.err = NoErr /\ ~call.resp.isNil

\* C13: a successful local Completion whose response carries
\* prompt_eval_count = p and eval_count = e (0 when absent on the wire)
\* returns usage promptTokens = p, completionTokens = e, totalTokens = p + e;
\* p = 10, e = 20 gives {10, 20, 30}.
C13_LocalUsageApproximation ==
    (OnLocal /\ Succeeded) =>
        LET wire == LocalUnmarshalResponse(call.raw)
            p == wire.PromptEvalCount
            e == wire.EvalCount
        IN  /\ call.resp.Usage =
                  [PromptTokens |-> p, CompletionTokens |-> e, TotalTokens |-> p + e]
            /\ call.raw = LocalRespJSON =>
                  call.resp.Usage =
                      [PromptTokens |-> 10, CompletionTokens |-> 20, TotalTokens |-> 30]
            /\ call.raw = LocalRespNoCountsJSON => call.resp.Usage = NoUsage
            /\ call.raw = LocalRespPromptOnlyJSON =>
                  call.resp.Usage =
                      [PromptTokens |-> 7, CompletionTokens |-> 0, TotalTokens |-> 7]

C13_Witness ==
    /\ OnLocal /\ Succeeded /\ call.raw = LocalRespJSON
    /\ call.resp.Usage.TotalTokens = 30

\* C14: every ChatResponse returned by Completion on either adapter has
\* promptTokens >= 0, completionTokens >= 0 and totalTokens >= 0, whatever
\* counts the response body carries.
C14_UsageNonNegative ==
    Succeeded =>
        /\ call.resp.Usage.PromptTokens >= 0
        /\ call.resp.Usage.CompletionTokens >= 0
        /\ call.resp.Usage.TotalTokens >= 0

\* C15: for both adapters and both call shapes, the messages of the outgoing
\* request have the length of the caller's list and, at every index, the role
\* and content of the caller's message at that index.
C15_MessagesPreserved ==
    (call.op \in {"Completion", "CompletionStream"} /\ call.requests > 0) =>
        /\ call.request.sent
        /\ Len(call.request.Messages) = Len(call.messages)
        /\ \A i \in 1..Len(call.messages) :
              /\ call.request.Messages[i].Role = call.messages[i].Role
              /\ call.request.Messages[i].Content = call.messages[i].Content

C15_Witness ==
    /\ OnOpenAI /\ IsStream /\ call.request.sent
    /\ Len(call.messages) = 2
    /\ call.messages[1] = [Role |-> "system", Content |-> "ok"]
    /\ call.messages[2] = [Role |-> "user", Content |-> "hi"]
    /\ call.request.Messages[1].Role = "system"
    /\ call.request.Messages[2].Content = "hi"

\* C18: every onDelta invocation of a CompletionStream call happens between
\* its start and its return, in the step of the read loop that read the
\* frame: a step adds a delta only while the call is reading, adds one delta
\* for the line it has just read, and once the call has returned its deltas
\* only change by being dropped with the call.
C18_DeltasOnlyInsideCall ==
    [][/\ Len(call.deltas) <= call.pos
       /\ call'.deltas # call.deltas =>
             \/ /\ call.pc \in {"returned", "panicked"}
                /\ call'.pc = "idle" /\ call'.deltas = <<>>
             \/ /\ call.op = "CompletionStream" /\ call.pc = "reading"
                /\ call'.op = call.op /\ call'.body = call.body
                /\ call'.pos = call.pos + 1
                /\ IsFrame(provider.client.kind, call.body[call'.pos])
                /\ Len(call'.deltas) = Len(call.deltas) + 1
                /\ SubSeq(call'.deltas, 1, Len(call.deltas)) = call.deltas]_vars

C18_Witness ==
    /\ IsStream /\ Returned /\ call.err = StopSignal
    /\ Len(call.deltas) = 1 /\ call.pos = 1 /\ Len(call.body) = 3

\* The line of the body that holds its i-th frame.
NthFrame(kind, body, i) ==
    CHOOSE n \in DOMAIN body :
        IsFrame(kind, body[n]) /\ Cardinality(FrameIndexes(kind, body, n)) = i

\* C19: on both adapters, once onDelta has been invoked with a delta whose
\* done = true, onDelta is not invoked again and no further line of the body
\* is read: a done delta is the last delta and the last line read is its line.
C19_NothingAfterDoneDelta ==
    IsStream =>
        \A i \in DoneIndexes(call.deltas) :
            /\ i = Len(call.deltas)
            /\ call.pos = NthFrame(provider.client.kind, call.body, i)

\* The delta a frame is translated into: content and finish reason of the
\* first choice (done when the reason is "stop"), or of the local chunk.
ExpectedDelta(kind, line) ==
    LET l == TrimSpace(line) IN
    IF kind = "openai"
    THEN CASE l[2] = HiChunk -> [Content |-> "Hi", Done |-> FALSE, FinishReason |-> ""]
           [] l[2] = StopChunk -> [Content |-> "", Done |-> TRUE, FinishReason |-> "stop"]
           [] l[2] = LengthChunk ->
                  [Content |-> "Hi", Done |-> FALSE, FinishReason |-> "length"]
           [] OTHER -> [Content |-> "", Done |-> FALSE, FinishReason |-> ""]
    ELSE CASE l[1] = DoneLine -> [Content |-> "", Done |-> TRUE, FinishReason |-> ""]
           [] OTHER -> [Content |-> "Hi", Done |-> FALSE, FinishReason |-> ""]

\* The in-order translation of the frames among the first n lines of the body.
RECURSIVE Translation(_, _, _)
Translation(kind, body, n) ==
    IF n = 0 THEN <<>>
    ELSE Translation(kind, body, n - 1)
         \o (IF IsFrame(kind, body[n]) THEN <<ExpectedDelta(kind, body[n])>> ELSE <<>>)

\* C20: on both adapters the deltas delivered to the caller's onDelta are the
\* in-order translation of the frames among the lines read so far: one delta
\* per parsed frame (for cloud also a chunk without choices, as content ""
\* and done = false), none for blank lines, lines without the data: prefix
\* or the sentinel, none twice and none out of order.
C20_DeltasAreTranslation ==
    (IsStream /\ ~call.onDeltaNil) =>
        call.deltas = Translation(provider.client.kind, call.body, call.pos)

C20_Witness ==
    /\ IsStream /\ OnOpenAI /\ Returned /\ call.err = NoErr /\ call.pos = 3
    /\ call.body = <<(<<DataPrefix, NoChoiceChunk>>), (<<": keep-alive">>),
                     (<<DataPrefix, LengthChunk>>)>>
    /\ call.deltas = <<[Content |-> "", Done |-> FALSE, FinishReason |-> ""],
                       [Content |-> "Hi", Done |-> FALSE, FinishReason |-> "length"]>>

\* What a call holds derives from its own arguments and its own response:
\* its request carries its messages and the adapter's model, and its deltas
\* are the translation of the lines it has read of its own body, in order.
CallIsPrivate(c) ==
    /\ (c.op \in {"Completion", "CompletionStream"} /\ c.requests > 0) =>
          /\ c.request.Messages = c.messages
          /\ c.request.Model = provider.client.model
          /\ c.request.Stream = (c.op = "CompletionStream")
    /\ c.op = "CompletionStream" =>
          c.deltas = Translation(provider.client.kind, c.body, c.pos)
    /\ c.op = "Health" => c.request.Method = "GET" /\ c.request.Messages = <<>>
    /\ c.op = "IsEnabled" => c.enabled
    /\ c.op = "GetModel" => c.model = provider.client.model

\* C17: under any interleaving of concurrent Completion, CompletionStream,
\* Health, IsEnabled and GetModel calls on one adapter, the adapter's
\* configuration stays as constructed, each call's request and decode state
\* derive from its own arguments and response only, and the deltas of a call
\* are those of its own body in transport order.
C17_ConcurrentCallsIsolated ==
    /\ provider = NewChatProviderResult(cfg).provider
    /\ CallIsPrivate(call)
    /\ CallIsPrivate(peer)

C17_Witness ==
    /\ call.op = "CompletionStream" /\ peer.op = "CompletionStream"
    /\ call.pc = "reading" /\ peer.pc = "reading"
    /\ call.body # peer.body /\ call.messages # peer.messages
    /\ call.pos = 1 /\ peer.pos = 1
    /\ Len(call.deltas) = 1 /\ Len(peer.deltas) = 1 /\ call.deltas # peer.deltas

\* A line whose frame payload fails to parse: for cloud a data: line that is
\* neither the sentinel nor a chunk, for local a non-blank line that is no chunk.
IsMalformed(kind, line) ==
    LET l == TrimSpace(line) IN
    IF kind = "openai"
    THEN HasDataPrefix(l) /\ TrimDataPrefix(l) # <<Sentinel>> /\ ~IsFrame(kind, line)
    ELSE l # <<>> /\ ~IsFrame(kind, line)

\* C21: on both adapters, when a frame payload fails to parse the call returns
\* the unmarshal error at that line: it reads no later line, onDelta is
\* invoked neither for that line nor afterwards, the deltas of the earlier
\* frames stay delivered, and the call does not return success.
C21_ParseFailureAborts ==
    IsStream =>
        \A m \in 1..call.pos :
            IsMalformed(provider.client.kind, call.body[m]) =>
                /\ call.pos = m
                /\ Returned
                /\ call.err = UnmarshalChunkError /\ call.err # NoErr
                /\ call.deltas = Translation(provider.client.kind, call.body, m - 1)

C21_Witness ==
    /\ IsStream /\ OnLocal /\ Returned /\ call.err = UnmarshalChunkError
    /\ call.body = <<(<<HiLine>>), (<<BadLine>>), (<<HiLine>>)>>
    /\ call.pos = 2 /\ Len(call.deltas) = 1

\* The call got a 2xx answer and entered its read loop.
EnteredLoop == IsStream /\ call.opened = 1 /\ call.status >= 200 /\ call.status < 300

\* What ended the read loop of a returned call: the callback's stop, a parse
\* failure at the last line read, a terminal line (cloud: the sentinel; local:
\* a chunk with done = true), or else scanner.Scan() returning false.
EndedByStop == call.stopAt > 0 /\ call.stopAt = Len(call.deltas)

EndedByParseFailure ==
    call.pos > 0 /\ IsMalformed(provider.client.kind, call.body[call.pos])

EndedByTerminal ==
    /\ call.pos > 0 /\ ~EndedByStop
    /\ IF OnOpenAI THEN IsSentinelLine(call.body[call.pos])
       ELSE TrimSpace(call.body[call.pos]) = <<DoneLine>>

EndedByEndOfInput == ~EndedByStop /\ ~EndedByParseFailure /\ ~EndedByTerminal

\* C22 as stated: a read error after the loop started is returned as "error
\* reading stream", distinct from the parse-failure error, and it is reported
\* only when the loop was not already ended by a terminal line, a parse
\* failure or a callback stop.
C22_ReadErrorOnlyAtEndOfInput ==
    (EnteredLoop /\ Returned) =>
        /\ ReadStreamError[1] # UnmarshalChunkError[1]
        /\ (call.readErr /\ EndedByEndOfInput) => call.err = ReadStreamError
        /\ call.err = ReadStreamError => EndedByEndOfInput

\* C22 as amended: the read error is returned as "error reading stream",
\* distinct from the parse-failure error; a loop ended by a parse failure or
\* a callback stop returns that error and never the read error; a loop that
\* ran to the end of the input reports the read error; a loop left at the
\* sentinel or at a local done chunk reports it exactly when the scanner had
\* already recorded it while the terminal line was buffered.
C22_ReadErrorReported ==
    (EnteredLoop /\ Returned) =>
        /\ ReadStreamError[1] # UnmarshalChunkError[1]
        /\ call.err = ReadStreamError <=>
              /\ call.readErr
              /\ EndedByEndOfInput \/ (EndedByTerminal /\ call.errAhead)
        /\ EndedByParseFailure => call.err = UnmarshalChunkError
        /\ EndedByStop => call.err = StopSignal

C22_Witness ==
    /\ EnteredLoop /\ OnOpenAI /\ Returned /\ call.err = ReadStreamError
    /\ Len(call.body) = 3 /\ call.pos = 2 /\ IsSentinelLine(call.body[2])
    /\ Len(call.deltas) = 1

\* C23: on both adapters and for both call shapes, a response body opened by
\* a call is closed exactly once by the time the call returns, on every exit
\* path (success, non-2xx status, body read error, parse failure, callback
\* stop, sentinel or done termination, panic of the callback): it is open
\* only while the read loop runs and no call ends with its body open.
C23_BodyClosedOnce ==
    IsCall =>
        /\ call.opened = (IF call.status # 0 THEN 1 ELSE 0)
        /\ call.closed <= call.opened
        /\ call.pc = "reading" => (call.opened = 1 /\ call.closed = 0)
        /\ call.pc \in {"returned", "panicked"} => call.closed = call.opened

C23_Witness ==
    /\ IsStream /\ OnOpenAI /\ Returned /\ call.err = StopSignal
    /\ call.pos < Len(call.body) /\ call.opened = 1 /\ call.closed = 1

\* C24: on both adapters a Completion or CompletionStream call issues at most
\* one HTTP request, to its own provider's chat endpoint; a call that fails
\* after its arguments were accepted (transport failure, non-2xx status,
\* parse failure, callback stop) has issued exactly one.
C24_AtMostOneRequest ==
    IsCall =>
        /\ call.requests <= 1
        /\ call.requests = 1 =>
              /\ call.request.sent /\ call.request.Method = "POST"
              /\ call.request.URL = IF OnOpenAI THEN OpenAIChatURL
                                    ELSE provider.client.host \o LocalChatEndpoint
        /\ (call.pc # "reading" /\ call.messages # <<>>) => call.requests = 1

C24_Witness ==
    /\ IsCall /\ OnLocal /\ Returned /\ call.requests = 1 /\ call.status = 0
    /\ call.err = <<"failed to send HTTP request: ", "connection refused">>

\* C25: in the cloud request, temperature, top_p and max_tokens are present
\* exactly when the caller's value is non-zero, and stop exactly when the stop
\* list is non-empty, each with the caller's value; options that are all zero
\* and absent options (nil) give the same request, with none of the fields.
C25_ZeroOptionsDropped ==
    call.pc = "built" =>
        LET o == call.opts
            w == call.wire
            allZero == /\ o.Temperature \in {"0", "-0"} /\ o.TopP \in {"0", "-0"}
                       /\ o.MaxTokens = 0 /\ o.Stop.items = <<>>
        IN  /\ w.temperature.present <=> (~o.isNil /\ o.Temperature \notin {"0", "-0"})
            /\ w.top_p.present <=> (~o.isNil /\ o.TopP \notin {"0", "-0"})
            /\ w.max_tokens.present <=> (~o.isNil /\ o.MaxTokens # 0)
            /\ w.stop.present <=> (~o.isNil /\ o.Stop.items # <<>>)
            /\ w.temperature.present => w.temperature.value = o.Temperature
            /\ w.top_p.present => w.top_p.value = o.TopP
            /\ w.max_tokens.present => w.max_tokens.value = o.MaxTokens
            /\ w.stop.present => w.stop.value = o.Stop.items
            /\ (o.isNil \/ allZero) =>
                  /\ w = NoWireOptions
                  /\ ~w.temperature.present /\ ~w.top_p.present
                  /\ ~w.max_tokens.present /\ ~w.stop.present

C25_Witness ==
    /\ call.pc = "built" /\ ~call.opts.isNil
    /\ call.opts.Temperature = "0" /\ call.opts.MaxTokens = 256
    /\ ~call.wire.temperature.present /\ call.wire.max_tokens.present

\* C26: on the local stream a line that parses as a JSON object but carries
\* no done field is treated as malformed: the call aborts at that line with
\* the protocol (unmarshal) error and onDelta is not invoked for it.
C26_MissingDoneIsMalformed ==
    (IsStream /\ OnLocal /\ ~call.onDeltaNil) =>
        \A m \in 1..call.pos :
            TrimSpace(call.body[m]) = <<NoDoneLine>> =>
                /\ call.pos = m
                /\ Returned
                /\ call.err = UnmarshalChunkError
                /\ call.deltas = Translation("local", call.body, m - 1)

\* C27: for every cloud chunk with at least one choice the delivered delta has
\* the content and the finish reason of the first choice and done = true
\* exactly when that finish reason is "stop" ("length" or none give false);
\* the choices after the first do not matter.
C27_FirstChoiceTranslated ==
    (call.pc = "delivered" /\ Len(call.chunk.Choices) >= 1) =>
        LET first == call.chunk.Choices[1] IN
        /\ call.delta.Content = first.Content
        /\ call.delta.FinishReason = first.FinishReason
        /\ call.delta.Done <=> (first.FinishReason = "stop")
        /\ first.FinishReason \in {"", "length"} => ~call.delta.Done

C27_Witness ==
    /\ call.pc = "delivered" /\ Len(call.chunk.Choices) = 2
    /\ call.chunk.Choices[1] = [Content |-> "Hi", FinishReason |-> "length"]
    /\ call.chunk.Choices[2] = [Content |-> "there", FinishReason |-> "stop"]
    /\ call.delta = [Content |-> "Hi", Done |-> FALSE, FinishReason |-> "length"]

\* A terminal signal: for cloud the sentinel line, for local a chunk with
\* done = true.
IsTerminalLine(kind, line) ==
    IF kind = "openai" THEN IsSentinelLine(line) ELSE TrimSpace(line) = <<DoneLine>>

\* C28: on both adapters, when the body of a streaming call ends cleanly (end
\* of input, no read error) and no terminal signal was seen, the call
\* returns success after delivering the deltas of every frame of the body,
\* as a completed stream does.
C28_TruncatedStreamSucceeds ==
    (/\ EnteredLoop /\ Returned /\ ~call.readErr
     /\ \A i \in DOMAIN call.body : ~IsTerminalLine(provider.client.kind, call.body[i])
     /\ ~EndedByStop /\ ~EndedByParseFailure) =>
        /\ call.err = NoErr
        /\ call.pos = Len(call.body)
        /\ call.deltas = Translation(provider.client.kind, call.body, Len(call.body))

C28_Witness ==
    /\ EnteredLoop /\ OnLocal /\ Returned /\ call.err = NoErr /\ ~call.readErr
    /\ call.body = <<(<<HiLine>>), (<<NoDoneLine>>)>>
    /\ call.pos = 2 /\ Len(call.deltas) = 2 /\ DoneIndexes(call.deltas) = {}

\* C29: on both adapters, with a body of finitely many lines and a callback
\* that returns on every invocation, a call that is reading eventually
\* returns; every step of the loop either consumes the next line of the
\* body (each line once, in order) or ends the read at the end of the input.
C29_StreamTerminates ==
    /\ [][(call.pc = "reading" /\ call' # call) =>
             /\ call'.body = call.body
             /\ \/ call'.pos = call.pos + 1 /\ call'.pos <= Len(call.body)
                \/ /\ call.pos = Len(call.body) /\ call'.pos = call.pos
                   /\ call'.pc = "returned"]_vars
    /\ (call.pc = "reading") ~> (call.pc = "returned")

C29_Witness ==
    /\ IsStream /\ OnOpenAI /\ Returned /\ call.err = NoErr
    /\ call.pos = 3 /\ Len(call.body) = 3 /\ TrimSpace(call.body[1]) = <<>>
    /\ Len(call.deltas) = 1

\* C30: under any interleaving of concurrent LoadConfig calls, loadConfig
\* runs at most once, every call returns the same instance with a nil error,
\* and the instance a call returns is fully initialised from the environment.
C30_ConfigLoadedOnce ==
    /\ config.loads <= 1
    /\ Cardinality(config.returned) <= 1
    /\ \A i \in config.returned :
          /\ ~i.isNil
          /\ i.Port = config.env.Port /\ i.WeaviateHost = config.env.WeaviateHost
    /\ \A g \in Goroutines :
          /\ config.ret[g].err = NoErr
          /\ (config.calls[g] > 0 /\ config.pc[g] = "idle") =>
                config.ret[g].instance \in config.returned

C30_Witness ==
    /\ config.loads = 1 /\ config.env.Port = "8080"
    /\ \A g \in Goroutines : config.calls[g] = 2 /\ config.pc[g] = "idle"
    /\ \A g \in Goroutines : config.ret[g].instance = config.instance
    /\ config.instance.Port = "8080"

====
